---- MODULE Spec2Model ----
(***************************************************************************)
(* Capturing Radiance: the Radiance Detector of eda_analysis.run_eda and    *)
(* the Forecast Engine of predict_console.main, as state machines over a   *)
(* wish-log table (a pandas DataFrame, here a sequence of rows whose       *)
(* position is the row's index label; pandas labels 0..n-1 are 1..n here). *)
(***************************************************************************)
EXTENDS Integers, Sequences, FiniteSets, TLC

(* ------------------------------ bounds -------------------------------- *)
\* longest wish log given to run_eda
MaxPulls == 8
\* longest wish log given to the forecast
MaxRows == 4
\* the pity values read are 0, the ceiling, and this far below and above it
PityMargin == 1

(* ------------------------- program constants -------------------------- *)
\* eda_analysis.py:57  cycle_count % 4 == 0
CycleModulus == 4

\* data_loader.py:22-26 NON_UP_CHARS (the standard five-star characters)
NON_UP_CHARS == {"Diluc", "Dehya", "Tighnari", "Yumemizuki mizuki", "Mona",
                 "Jean", "Keqing", "Qiqi"}

(* ------------------------------ remarks ------------------------------- *)
\* A remark is NaN (an empty spreadsheet cell) or a text, a sequence of
\* characters.  The four characters of the Chinese phrase are written in
\* pinyin, one token per character; NaN is the one-token sequence "NaN",
\* which no text is.
NaN == <<"NaN">>

\* the lower-case letter of a character (re.IGNORECASE folds case)
Lower(c) ==
    CASE c = "A" -> "a" [] c = "C" -> "c" [] c = "D" -> "d" [] c = "E" -> "e"
      [] c = "G" -> "g" [] c = "I" -> "i" [] c = "N" -> "n" [] c = "P" -> "p"
      [] c = "R" -> "r" [] c = "T" -> "t" [] c = "U" -> "u"
      [] OTHER -> c

\* Series.fillna(''): NaN becomes the empty text
fillna(remark) == IF remark = NaN THEN << >> ELSE remark

\* text has pat at offset k (0-based); caseless: compare folded characters
MatchAt(text, pat, k, caseless) ==
    /\ k + Len(pat) <= Len(text)
    /\ \A j \in 1..Len(pat) :
          IF caseless THEN Lower(text[k + j]) = Lower(pat[j])
                      ELSE text[k + j] = pat[j]

\* Series.str.contains(pat, case=False) for one literal pattern
StrContains(text, pat, caseless) ==
    \E k \in 0..Len(text) : MatchAt(text, pat, k, caseless)

\* the Detector's two marker phrases (eda_analysis.py:37)
CAPTURING_RADIANCE ==
    <<"c","a","p","t","u","r","i","n","g"," ","r","a","d","i","a","n","c","e">>
BU_HUO_MING_GUANG == <<"bu", "huo", "ming", "guang">>

\* the mask without case=False
RemarkMaskMutant(remark) ==
    \/ StrContains(fillna(remark), CAPTURING_RADIANCE, FALSE)
    \/ StrContains(fillna(remark), BU_HUO_MING_GUANG, FALSE)

\* eda_analysis.py:35-37: the regex capturing radiance|<chinese>, case=False
RemarkMask(remark) ==
    \/ StrContains(fillna(remark), CAPTURING_RADIANCE, TRUE)
    \/ StrContains(fillna(remark), BU_HUO_MING_GUANG, TRUE)

(* --------------------------- the wish log ----------------------------- *)
\* data_loader.py:61-62: the two derived flags of a row
CleanRow(raw) ==
    [timestamp |-> raw.timestamp, rarity |-> raw.rarity, name |-> raw.name,
     remark |-> raw.remark,
     is_not_up |-> (raw.rarity = 5) /\ (raw.name \in NON_UP_CHARS),
     is_up     |-> (raw.rarity = 5) /\ ~(raw.name \in NON_UP_CHARS)]

VARIABLES
    df,               \* the wish_logs table, in arrival (index label) order
    pc,               \* position in the entry point being run
    is_fate_capture,  \* the Radiance flag column of df
    remark_mask,      \* eda_analysis.py:35  the annotation-rule mask over df
    df5,              \* the five-star frame: df's index labels in row order
    i,                \* rows of df5 the scan loop has visited
    cycle_count,      \* eda_analysis.py:42
    waiting_not_up,   \* eda_analysis.py:43
    failsafe_idxs,    \* eda_analysis.py:44
    rad_ct,           \* eda_analysis.py:68  the reported event total
    stdout,           \* predict_console.py: the lines printed so far
    exception,        \* the exception that ended the run, or "none"
    rad_mask,         \* predict_console.py:41  over the rows of df5
    up_name,          \* predict_console.py:46,51
    last_rad_pos,     \* predict_console.py:47,52  (0-based, -1: no event)
    recent,           \* predict_console.py:56  labels of the rows after it
    consec_non_up,    \* predict_console.py:59
    radiance_chance,  \* predict_console.py:68,71  in units of 1/100000
    guaranteed,       \* predict_console.py:69,72
    current_pity,     \* predict_console.py:74
    pulls_to_next5,   \* predict_console.py:75
    gems_needed       \* predict_console.py:76

\* the state of run_eda's scan and of the forecast
scanVars == <<is_fate_capture, remark_mask, cycle_count, waiting_not_up,
              failsafe_idxs, rad_ct>>
forecastVars == <<stdout, exception, rad_mask, up_name, last_rad_pos, recent,
                  consec_non_up, radiance_chance, guaranteed, current_pity,
                  pulls_to_next5, gems_needed>>
vars == <<df, pc, df5, i, scanVars, forecastVars>>

\* the elements of a sequence
Range(s) == {s[k] : k \in 1..Len(s)}

\* df[df['rarity'] == 5]: the index labels of the five-star rows, in order
FilterFive(frame) ==
    LET F[k \in 0..Len(frame)] ==
            IF k = 0 THEN << >>
            ELSE IF frame[k].rarity = 5 THEN Append(F[k - 1], k) ELSE F[k - 1]
    IN  F[Len(frame)]

\* idx put into the label sequence s, which is ascending by timestamp
RECURSIVE InsertByTimestamp(_, _, _)
InsertByTimestamp(frame, s, idx) ==
    IF s = << >> THEN <<idx>>
    ELSE IF frame[idx].timestamp < frame[Head(s)].timestamp THEN <<idx>> \o s
    ELSE <<Head(s)>> \o InsertByTimestamp(frame, Tail(s), idx)

\* the frame left in arrival order
SortValuesMutant(frame, idxs) == idxs

\* DataFrame.sort_values('timestamp'): the labels idxs reordered ascending
SortValues(frame, idxs) ==
    LET S[k \in 0..Len(idxs)] ==
            IF k = 0 THEN << >> ELSE InsertByTimestamp(frame, S[k - 1], idxs[k])
    IN  S[Len(idxs)]

\* the loop body flagging every completed cycle, not every 4th
ScanStepMutant(st, idx, row) ==
    IF row.is_not_up THEN [st EXCEPT !.waiting_not_up = TRUE]
    ELSE IF row.is_up /\ st.waiting_not_up THEN
        [cycle_count    |-> st.cycle_count + 1,
         waiting_not_up |-> FALSE,
         failsafe_idxs  |-> Append(st.failsafe_idxs, idx)]
    ELSE st

\* eda_analysis.py:47-58 (model_training.py:79-85): the body of the scan loop
ScanStep(st, idx, row) ==
    IF row.is_not_up THEN [st EXCEPT !.waiting_not_up = TRUE]
    ELSE IF row.is_up /\ st.waiting_not_up THEN
        LET c == st.cycle_count + 1 IN
        [cycle_count    |-> c,
         waiting_not_up |-> FALSE,
         failsafe_idxs  |-> IF c % CycleModulus = 0
                            THEN Append(st.failsafe_idxs, idx)
                            ELSE st.failsafe_idxs]
    ELSE st

\* how many of the labels of s satisfy P
CountIf(s, P(_)) == Cardinality({k \in 1..Len(s) : P(s[k])})

\* eda_analysis.py:68: isin(failsafe_idxs).sum() + remark_mask[df5.index].sum()
RadCt(frame5, idxs, mask) ==
    CountIf(frame5, LAMBDA x : x \in Range(idxs))
      + CountIf(frame5, LAMBDA x : mask[x])

(* ----------------------------- run_eda -------------------------------- *)
\* eda_analysis.py:31-38
FlagRemarks ==
    /\ pc = "flag_remarks"
    /\ remark_mask' = [k \in 1..Len(df) |-> RemarkMask(df[k].remark)]
    /\ is_fate_capture' = [k \in 1..Len(df) |-> remark_mask'[k]]
    /\ pc' = "select_5star"
    /\ UNCHANGED <<df, df5, i, cycle_count, waiting_not_up, failsafe_idxs,
                   rad_ct, forecastVars>>

\* eda_analysis.py:41-44
SelectFiveStar ==
    /\ pc = "select_5star"
    /\ df5' = SortValues(df, FilterFive(df))
    /\ cycle_count' = 0
    /\ waiting_not_up' = FALSE
    /\ failsafe_idxs' = << >>
    /\ i' = 0
    /\ pc' = "scan"
    /\ UNCHANGED <<df, is_fate_capture, remark_mask, rad_ct, forecastVars>>

\* eda_analysis.py:46-58: one iteration of the loop over df5.iterrows()
Iterate ==
    /\ pc = "scan"
    /\ i < Len(df5)
    /\ LET idx == df5[i + 1]
           st  == ScanStep([cycle_count |-> cycle_count,
                            waiting_not_up |-> waiting_not_up,
                            failsafe_idxs |-> failsafe_idxs], idx, df[idx])
       IN  /\ cycle_count' = st.cycle_count
           /\ waiting_not_up' = st.waiting_not_up
           /\ failsafe_idxs' = st.failsafe_idxs
    /\ i' = i + 1
    /\ UNCHANGED <<df, pc, is_fate_capture, remark_mask, df5, rad_ct,
                   forecastVars>>

\* eda_analysis.py:46, 60-61: the loop is exhausted; apply the cycle flags
ApplyCycleFlags ==
    /\ pc = "scan"
    /\ i = Len(df5)
    /\ is_fate_capture' = [k \in 1..Len(df) |->
                              IF k \in Range(failsafe_idxs) THEN TRUE
                              ELSE is_fate_capture[k]]
    /\ pc' = "summary"
    /\ UNCHANGED <<df, remark_mask, df5, i, cycle_count, waiting_not_up,
                   failsafe_idxs, rad_ct, forecastVars>>

\* eda_analysis.py:63-74
Summary ==
    /\ pc = "summary"
    /\ rad_ct' = RadCt(df5, failsafe_idxs, remark_mask)
    /\ pc' = "done"
    /\ UNCHANGED <<df, is_fate_capture, remark_mask, df5, i, cycle_count,
                   waiting_not_up, failsafe_idxs, forecastVars>>

(* ======================= predict_console.main ========================= *)
\* predict_console.py:67  consec_non_up >= 3
STREAK_THRESHOLD == 3
\* predict_console.py:68  radiance_chance = 1.0, in units of 1/100000
CERTAIN == 100000
\* predict_console.py:71  radiance_chance = 0.00018, in units of 1/100000
BASE_CHANCE == 18
\* predict_console.py:75  max(90 - current_pity, 0)
PITY_CEILING == 90
\* predict_console.py:76  pulls_to_next5 * 160
GEMS_PER_PULL == 160

\* predict_console.py:41: the engine's own marker, matched with case=False
CAPTURE_RADIANCE ==
    <<"c","a","p","t","u","r","e"," ","r","a","d","i","a","n","c","e">>

\* predict_console.py:41: str.contains('capture radiance', case=False)
RadMask(remark) == StrContains(fillna(remark), CAPTURE_RADIANCE, TRUE)

Max(a, b) == IF a >= b THEN a ELSE b

\* the values of the sheet's last 'within pity' cell
PityValues ==
    {0, PITY_CEILING - PityMargin, PITY_CEILING, PITY_CEILING + PityMargin}

\* the difference without max(..., 0)
PullsToNext5Mutant(pity) == PITY_CEILING - pity

\* predict_console.py:75
PullsToNext5(pity) == Max(PITY_CEILING - pity, 0)

\* predict_console.py:76
GemsNeeded(pulls) == pulls * GEMS_PER_PULL

\* .iloc[0]: the oldest five-star pull instead of the most recent
FallbackNameMutant(frame, frame5) == frame[frame5[1]].name

\* predict_console.py:46: df5['name'].iloc[-1]
FallbackName(frame, frame5) == frame[frame5[Len(frame5)]].name

\* predict_console.py:50: df5[rad_mask].index.max(), 0-based
LastRadIdx(mask) ==
    (CHOOSE k \in 1..Len(mask) :
        mask[k] /\ \A m \in (k + 1)..Len(mask) : ~mask[m]) - 1

\* the loop body without its break
CountStepMutant(count, name, up) ==
    [count |-> IF name # up THEN count + 1 ELSE count, brk |-> FALSE]

\* predict_console.py:61-64: the body of the streak loop
CountStep(count, name, up) ==
    IF name # up THEN [count |-> count + 1, brk |-> FALSE]
                 ELSE [count |-> count, brk |-> TRUE]

\* the threshold compared with > instead of >=
DecideMutant(count) ==
    IF count > STREAK_THRESHOLD
    THEN [radiance_chance |-> CERTAIN, guaranteed |-> TRUE]
    ELSE [radiance_chance |-> BASE_CHANCE, guaranteed |-> FALSE]

\* predict_console.py:67-72
Decide(count) ==
    IF count >= STREAK_THRESHOLD
    THEN [radiance_chance |-> CERTAIN, guaranteed |-> TRUE]
    ELSE [radiance_chance |-> BASE_CHANCE, guaranteed |-> FALSE]

\* the frame sorted without the rarity filter
Df5Mutant(frame) == SortValues(frame, [k \in 1..Len(frame) |-> k])

\* predict_console.py:38: df[df['rarity'] == 5].sort_values('timestamp')
\* (reset_index(drop=True): a row is then known by its position in df5)
Df5(frame) == SortValues(frame, FilterFive(frame))

\* the lines main prints
ERROR_NO_FILES == [line |-> "ERROR: No Excel files found in data/*.xlsx"]
USING_FILE == [line |-> "Using file"]
NO_PREVIOUS == [line |-> "No previous Radiance event found in remarks."]
DETECTED(name, idx) ==
    [line |-> "Detected last Radiance on", name |-> name, row |-> idx]
FORECAST ==
    [line |-> "=== Next Capturing Radiance Forecast ===",
     up_name |-> up_name, consec_non_up |-> consec_non_up,
     radiance_chance |-> radiance_chance, guaranteed |-> guaranteed,
     current_pity |-> current_pity, pulls_to_next5 |-> pulls_to_next5,
     gems_needed |-> gems_needed]

\* predict_console.py:26-32: glob finds the file or not
FindFile ==
    /\ pc = "find_file"
    /\ \E found \in BOOLEAN :
          IF found
          THEN stdout' = Append(stdout, USING_FILE) /\ pc' = "load"
          ELSE stdout' = Append(stdout, ERROR_NO_FILES) /\ pc' = "done"
    /\ UNCHANGED <<df, df5, i, scanVars, exception, rad_mask, up_name,
                   last_rad_pos, recent, consec_non_up, radiance_chance,
                   guaranteed, current_pity, pulls_to_next5, gems_needed>>

\* predict_console.py:35, data_loader.py:89-104: the sheet has its 'time'
\* column, or load_and_clean_excel raises ValueError
Load ==
    /\ pc = "load"
    /\ \E has_time \in BOOLEAN :
          IF has_time
          THEN exception' = exception /\ pc' = "select_5star"
          ELSE exception' = "ValueError" /\ pc' = "done"
    /\ UNCHANGED <<df, df5, i, scanVars, stdout, rad_mask, up_name,
                   last_rad_pos, recent, consec_non_up, radiance_chance,
                   guaranteed, current_pity, pulls_to_next5, gems_needed>>

\* predict_console.py:38
SelectFiveStar5 ==
    /\ pc = "select_5star"
    /\ df5' = Df5(df)
    /\ pc' = "find_last_radiance"
    /\ UNCHANGED <<df, i, scanVars, forecastVars>>

\* predict_console.py:41: read_excel gives a column without any text the
\* dtype float64; fillna('') leaves an empty float64 column as it is, and
\* pandas may refuse its .str accessor with an AttributeError
StrAccessorMayRaise(frame, frame5) ==
    /\ Len(frame5) = 0
    /\ Len(frame) > 0
    /\ \A k \in 1..Len(frame) : frame[k].remark = NaN

\* predict_console.py:41: the remark column of df5 has no .str accessor
\* (whether it has one is the pandas version's choice: NoRadianceFound is
\* enabled on the same logs)
NoStrAccessor ==
    /\ pc = "find_last_radiance"
    /\ StrAccessorMayRaise(df, df5)
    /\ exception' = "AttributeError"
    /\ pc' = "done"
    /\ UNCHANGED <<df, df5, i, scanVars, stdout, rad_mask, up_name,
                   last_rad_pos, recent, consec_non_up, radiance_chance,
                   guaranteed, current_pity, pulls_to_next5, gems_needed>>

\* predict_console.py:41-47: no remark matches; .iloc[-1] of an empty
\* column raises IndexError
NoRadianceFound ==
    /\ pc = "find_last_radiance"
    /\ LET mask == [k \in 1..Len(df5) |-> RadMask(df[df5[k]].remark)] IN
       /\ ~(\E k \in 1..Len(df5) : mask[k])
       /\ rad_mask' = mask
       /\ stdout' = Append(stdout, NO_PREVIOUS)
       /\ IF Len(df5) = 0
          THEN /\ exception' = "IndexError"
               /\ pc' = "done"
               /\ UNCHANGED <<up_name, last_rad_pos>>
          ELSE /\ up_name' = FallbackName(df, df5)
               /\ last_rad_pos' = -1
               /\ pc' = "slice_recent"
               /\ UNCHANGED exception
    /\ UNCHANGED <<df, df5, i, scanVars, recent, consec_non_up,
                   radiance_chance, guaranteed, current_pity, pulls_to_next5,
                   gems_needed>>

\* predict_console.py:41-42, 48-53: the last row whose remark matches
RadianceFound ==
    /\ pc = "find_last_radiance"
    /\ LET mask == [k \in 1..Len(df5) |-> RadMask(df[df5[k]].remark)] IN
       /\ \E k \in 1..Len(df5) : mask[k]
       /\ rad_mask' = mask
       /\ LET last_rad_idx == LastRadIdx(mask) IN
          /\ up_name' = df[df5[last_rad_idx + 1]].name
          /\ last_rad_pos' = last_rad_idx
          /\ stdout' = Append(stdout, DETECTED(up_name', last_rad_idx))
    /\ pc' = "slice_recent"
    /\ UNCHANGED <<df, df5, i, scanVars, exception, recent, consec_non_up,
                   radiance_chance, guaranteed, current_pity, pulls_to_next5,
                   gems_needed>>

\* predict_console.py:55-59: df5.iloc[last_rad_pos+1:]
SliceRecent ==
    /\ pc = "slice_recent"
    /\ recent' = SubSeq(df5, last_rad_pos + 2, Len(df5))
    /\ consec_non_up' = 0
    /\ i' = 0
    /\ pc' = "count"
    /\ UNCHANGED <<df, df5, scanVars, stdout, exception, rad_mask, up_name,
                   last_rad_pos, radiance_chance, guaranteed, current_pity,
                   pulls_to_next5, gems_needed>>

\* predict_console.py:60-64: one iteration of the loop over recent
CountIterate ==
    /\ pc = "count"
    /\ i < Len(recent)
    /\ LET r == CountStep(consec_non_up, df[recent[i + 1]].name, up_name) IN
       /\ consec_non_up' = r.count
       /\ pc' = IF r.brk THEN "decide" ELSE "count"
    /\ i' = i + 1
    /\ UNCHANGED <<df, df5, scanVars, stdout, exception, rad_mask, up_name,
                   last_rad_pos, recent, radiance_chance, guaranteed,
                   current_pity, pulls_to_next5, gems_needed>>

\* predict_console.py:60: recent is exhausted
CountExhausted ==
    /\ pc = "count"
    /\ i = Len(recent)
    /\ pc' = "decide"
    /\ UNCHANGED <<df, df5, i, scanVars, forecastVars>>

\* predict_console.py:66-72
DecideChance ==
    /\ pc = "decide"
    /\ radiance_chance' = Decide(consec_non_up).radiance_chance
    /\ guaranteed' = Decide(consec_non_up).guaranteed
    /\ pc' = "pity"
    /\ UNCHANGED <<df, df5, i, scanVars, stdout, exception, rad_mask, up_name,
                   last_rad_pos, recent, consec_non_up, current_pity,
                   pulls_to_next5, gems_needed>>

\* predict_console.py:73-76: the 'within pity' cell of the sheet's last row
\* is read here and nowhere else, so its value is drawn as it is read
ReadPity ==
    /\ pc = "pity"
    /\ \E within_pity \in PityValues :
          /\ current_pity' = within_pity
          /\ pulls_to_next5' = PullsToNext5(within_pity)
          /\ gems_needed' = GemsNeeded(pulls_to_next5')
    /\ pc' = "output"
    /\ UNCHANGED <<df, df5, i, scanVars, stdout, exception, rad_mask, up_name,
                   last_rad_pos, recent, consec_non_up, radiance_chance,
                   guaranteed>>

\* predict_console.py:78-86
Output ==
    /\ pc = "output"
    /\ stdout' = Append(stdout, FORECAST)
    /\ pc' = "done"
    /\ UNCHANGED <<df, df5, i, scanVars, exception, rad_mask, up_name,
                   last_rad_pos, recent, consec_non_up, radiance_chance,
                   guaranteed, current_pity, pulls_to_next5, gems_needed>>

(* ------------------------------ inputs -------------------------------- *)
\* remark texts of the logs
TEXT_MIXED_CASE ==
    <<"C","a","p","t","u","r","i","n","g"," ","R","A","D","I","A","N","C","E","!">>
TEXT_CHINESE == <<"x", "bu", "huo", "ming", "guang">>
TEXT_CAPTURE ==
    <<"c","a","p","t","u","r","e"," ","r","a","d","i","a","n","c","e">>
EdaTexts == {TEXT_MIXED_CASE, TEXT_CHINESE, TEXT_CAPTURE}

\* a standard and a featured five-star character
Names5 == {"Diluc", "Furina"}

\* the wish log of n rows whose five-star names are k and whose timestamps
\* are ts, with at most one special row p (none when p = 0): a row of rarity
\* r whose remark is t (a four-star row is the item "Barbara")
Log(n, k, ts, p, r, t) ==
    [j \in 1..n |->
        CleanRow([timestamp |-> ts[j],
                  rarity |-> IF j = p THEN r ELSE 5,
                  name |-> IF j = p /\ r # 5 THEN "Barbara" ELSE k[j],
                  remark |-> IF j = p THEN t ELSE NaN])]

\* arrival orders of n rows, as the timestamp of each arrival position:
\* chronological, rotated, reversed, or with two neighbours exchanged
Rotated(n, d) == [j \in 1..n |-> ((j - 1 + d) % n) + 1]
Reversed(n) == [j \in 1..n |-> n + 1 - j]
Exchanged(n, a) == [j \in 1..n |-> IF j = a THEN a + 1 ELSE IF j = a + 1 THEN a ELSE j]
Chronological(n) == [j \in 1..n |-> j]
ArrivalOrders(n) ==
    {Chronological(n), Reversed(n)} \cup {Rotated(n, d) : d \in 1..(n - 1)}
      \cup {Exchanged(n, a) : a \in 1..(n - 1)}

\* nothing scanned, nothing forecast
Blank ==
    /\ is_fate_capture = << >>
    /\ remark_mask = << >>
    /\ cycle_count = 0
    /\ waiting_not_up = FALSE
    /\ failsafe_idxs = << >>
    /\ rad_ct = 0
    /\ stdout = << >>
    /\ exception = "none"
    /\ rad_mask = << >>
    /\ up_name = ""
    /\ last_rad_pos = -1
    /\ recent = << >>
    /\ consec_non_up = 0
    /\ radiance_chance = 0
    /\ guaranteed = FALSE
    /\ current_pity = 0
    /\ pulls_to_next5 = 0
    /\ gems_needed = 0

EdaStart == pc = "flag_remarks" /\ Blank /\ df5 = << >> /\ i = 0

\* logs in chronological arrival order, with at most one special row
Init ==
    /\ \E n \in 0..MaxPulls : \E k \in [1..n -> Names5] : \E p \in 0..n :
       \E r \in IF p = 0 THEN {5} ELSE {4, 5} :
       \E t \in IF p = 0 THEN {NaN} ELSE EdaTexts \cup {NaN} :
           df = Log(n, k, Chronological(n), p, r, t)
    /\ EdaStart

\* logs without remarks in any of the arrival orders, of five-star pulls
\* and possibly a four-star item as the first row to arrive
InitUnsorted ==
    /\ \E n \in 0..MaxPulls : \E k \in [1..n -> Names5] :
       \E ts \in ArrivalOrders(n) : \E p \in {0, 1} \cap 0..n :
           df = Log(n, k, ts, p, 4, NaN)
    /\ EdaStart

Next == FlagRemarks \/ SelectFiveStar \/ Iterate \/ ApplyCycleFlags \/ Summary

Spec == Init /\ [][Next]_vars

SpecUnsorted == InitUnsorted /\ [][Next]_vars

\* the texts of the forecast's logs: one only the Detector's rule matches,
\* one only the engine's own rule matches
TEXT_CAPTURE_UPPER ==
    <<"C","A","P","T","U","R","E"," ","R","A","D","I","A","N","C","E">>
ForecastRows ==
    {[rarity |-> 5, name |-> nm, remark |-> t] :
        nm \in Names5, t \in {NaN, TEXT_MIXED_CASE, TEXT_CAPTURE_UPPER}}
      \cup {[rarity |-> 4, name |-> "Barbara", remark |-> t] :
                t \in {NaN, TEXT_CAPTURE_UPPER}}

\* logs in chronological arrival order, of five-star pulls and four-star items
InitForecast ==
    /\ \E n \in 0..MaxRows : \E rows \in [1..n -> ForecastRows] :
          df = [j \in 1..n |->
                   CleanRow([timestamp |-> j, rarity |-> rows[j].rarity,
                             name |-> rows[j].name, remark |-> rows[j].remark])]
    /\ pc = "find_file"
    /\ Blank
    /\ df5 = << >>
    /\ i = 0

NextForecast ==
    \/ FindFile \/ Load \/ SelectFiveStar5 \/ NoStrAccessor
    \/ NoRadianceFound \/ RadianceFound
    \/ SliceRecent \/ CountIterate \/ CountExhausted \/ DecideChance
    \/ ReadPity \/ Output

SpecForecast == InitForecast /\ [][NextForecast]_vars

(* ===================== the Radiance Detector ========================== *)
\* the j-th pull the scan visits is a standard / a featured pull
StandardAt(j) == df[df5[j]].is_not_up
FeaturedAt(j) == df[df5[j]].is_up

\* the waiting flag as the claim describes it when the j-th pull is visited:
\* set by an earlier standard pull and not cleared by a featured pull since
WaitingWhenVisited(j) ==
    \E s \in 1..(j - 1) :
        StandardAt(s) /\ \A m \in (s + 1)..(j - 1) : ~FeaturedAt(m)

\* the j-th pull completes a cycle; the cycles completed by the first n pulls
CompletesCycle(j) == FeaturedAt(j) /\ WaitingWhenVisited(j)
CyclesCompleted(n) == Cardinality({j \in 1..n : CompletesCycle(j)})

\* the labels of the pulls among the first n that the cycle rule flags
CycleTriggered(n) ==
    {df5[j] : j \in {m \in 1..n : CompletesCycle(m)
                                   /\ CyclesCompleted(m) > 0
                                   /\ CyclesCompleted(m) % 4 = 0}}

\* the scan has started
Scanning == pc \in {"scan", "summary", "done"}

\* Scenario A: [standard, featured] x 4 with no annotation match
ScenarioA ==
    /\ Len(df) = 8
    /\ \A j \in 1..8 : /\ df[j].rarity = 5
                       /\ df[j].timestamp = j
                       /\ df[j].remark = NaN
                       /\ df[j].name = IF j % 2 = 1 THEN "Diluc" ELSE "Furina"

\* C1: at every point of the forward scan, started from waiting = false and
\* counter = 0, the counter is the number of featured pulls visited while
\* the waiting flag was true (it grew by one on exactly those pulls and on
\* no other), the flag is true exactly when a standard pull was visited and
\* no featured pull since, and the pulls flagged cycle-triggered are exactly
\* the cycle-completing pulls whose counter value after the increment is a
\* positive multiple of 4.  For Scenario A the counter is below 4 before
\* the 8th pull, 4 after it, and only the 8th pull is flagged.
C1_CycleRule ==
    /\ Scanning =>
        /\ cycle_count = CyclesCompleted(i)
        /\ waiting_not_up = WaitingWhenVisited(i + 1)
        /\ Range(failsafe_idxs) = CycleTriggered(i)
        /\ Len(failsafe_idxs) = Cardinality(CycleTriggered(i))
    /\ (Scanning /\ ScenarioA) =>
        /\ (i < 8 => cycle_count < 4 /\ failsafe_idxs = << >>)
        /\ (i = 8 => cycle_count = 4 /\ failsafe_idxs = <<8>>)
        /\ (pc = "done" => \A k \in 1..8 : is_fate_capture[k] <=> (k = 8))

C1_Witness ==
    /\ ScenarioA
    /\ pc = "done"
    /\ cycle_count = 4
    /\ failsafe_idxs = <<8>>

\* upper and lower case of the letters of the marker phrase
CasePairs ==
    {<<"A", "a">>, <<"C", "c">>, <<"D", "d">>, <<"E", "e">>, <<"G", "g">>,
     <<"I", "i">>, <<"N", "n">>, <<"P", "p">>, <<"R", "r">>, <<"T", "t">>,
     <<"U", "u">>}
SameLetter(a, b) == a = b \/ <<a, b>> \in CasePairs \/ <<b, a>> \in CasePairs

\* the annotation holds the phrase, in any letter case
HoldsPhrase(remark, phrase) ==
    /\ remark # NaN
    /\ \E k \in 0..(Len(remark) - Len(phrase)) :
          \A j \in 1..Len(phrase) : SameLetter(remark[k + j], phrase[j])

\* the annotation holds one of the Detector's marker phrases
HoldsMarker(remark) ==
    \E phrase \in {CAPTURING_RADIANCE, BU_HUO_MING_GUANG} :
        HoldsPhrase(remark, phrase)

\* C8: once the annotation rule has run, a pull whose annotation holds a
\* marker phrase in any letter case is flagged in every state of the scan,
\* whatever the waiting flag and the counter are and whether it is standard
\* or featured; applying the cycle flags clears no flag, and the final flag
\* of every pull is the OR of the annotation rule and the cycle rule.
C8_AnnotationRule ==
    /\ pc # "flag_remarks" =>
          \A k \in 1..Len(df) : HoldsMarker(df[k].remark) => is_fate_capture[k]
    /\ pc \in {"summary", "done"} =>
          \A k \in 1..Len(df) :
              is_fate_capture[k] <=>
                  (HoldsMarker(df[k].remark) \/ k \in CycleTriggered(Len(df5)))

\* an upper-case annotation on a standard pull visited while the flag is
\* already waiting and a cycle is complete; a later pull is cycle-triggered
C8_Witness ==
    /\ pc = "done"
    /\ \E k \in 1..Len(df) :
          /\ df[k].remark = TEXT_MIXED_CASE
          /\ df[k].is_not_up
          /\ is_fate_capture[k]
          /\ k \in Range(df5)
          /\ \E j \in 3..Len(df5) : df5[j] = k /\ CyclesCompleted(j) = 1
          /\ \E m \in Range(failsafe_idxs) : m # k /\ df[m].remark = NaN

\* C10 as claimed: the reported total is the number of distinct five-star
\* pulls whose Radiance flag is true, each counted once
C10_TotalCountsEachEventOnce ==
    pc = "done" =>
        rad_ct = Cardinality({k \in Range(df5) : is_fate_capture[k]})

(* --------------------------- arrival order ---------------------------- *)
\* the five-star rows, and the chronological reading of the cycle rule by
\* timestamps alone
FiveStar == {k \in 1..Len(df) : df[k].rarity = 5}
WaitingAtTime(x) ==
    \E y \in FiveStar :
        /\ df[y].timestamp < df[x].timestamp
        /\ df[y].is_not_up
        /\ \A z \in FiveStar :
              (df[y].timestamp < df[z].timestamp
                 /\ df[z].timestamp < df[x].timestamp) => ~df[z].is_up
CompletesAtTime(x) == df[x].is_up /\ WaitingAtTime(x)
CompletedByTime(x) ==
    Cardinality({y \in FiveStar : CompletesAtTime(y)
                                    /\ df[y].timestamp <= df[x].timestamp})
ChronologicalCount == Cardinality({x \in FiveStar : CompletesAtTime(x)})
ChronologicalTriggered ==
    {x \in FiveStar : CompletesAtTime(x) /\ CompletedByTime(x) % 4 = 0}

\* C9: for every arrival order of pulls with distinct timestamps, the
\* counter and the set of cycle-triggered pulls the scan ends with are
\* those of the chronological (ascending timestamp) visit.
C9_OrderIndependent ==
    pc \in {"summary", "done"} =>
        /\ cycle_count = ChronologicalCount
        /\ Range(failsafe_idxs) = ChronologicalTriggered

\* a log that did not arrive chronologically, with a cycle-triggered pull,
\* on which a scan in arrival order would count otherwise
C9_Witness ==
    /\ pc = "done"
    /\ \E j \in 1..Len(df) : df[j].timestamp # j
    /\ failsafe_idxs # << >>
    /\ cycle_count = 4
    /\ df[1].is_up /\ df[1].timestamp = Len(df)

(* ======================== the Forecast Engine ========================= *)
\* the forecast's five-star pulls in chronological order (rows of df)
Pulls5 == df5
NameAt(k) == df[Pulls5[k]].name

\* a Forecast Result has been output
ForecastPrinted ==
    \E k \in 1..Len(stdout) : stdout[k].line = FORECAST.line
Printed(msg) == \E k \in 1..Len(stdout) : stdout[k].line = msg.line

\* the pulls the Detector flags, by either rule
DetectorFlags(k) ==
    HoldsMarker(df[Pulls5[k]].remark) \/ Pulls5[k] \in ChronologicalTriggered
LastOf(S) == CHOOSE k \in S : \A m \in S : m <= k

\* C2 as claimed: whenever the Detector flags a five-star pull by either
\* rule, the forecast's reference event is the last flagged pull, its
\* character is the active featured character, and no fallback is taken
C2_ReferenceIsLastDetectorEvent ==
    LET flagged == {k \in 1..Len(Pulls5) : DetectorFlags(k)} IN
    (ForecastPrinted /\ flagged # {}) =>
        /\ last_rad_pos = LastOf(flagged) - 1
        /\ up_name = NameAt(LastOf(flagged))
        /\ ~Printed(NO_PREVIOUS)

\* the exceptions that end main when the log has no five-star row
NoFiveStarData == {"IndexError", "AttributeError"}

EngineEvents ==
    {k \in 1..Len(Pulls5) : HoldsPhrase(df[Pulls5[k]].remark, CAPTURE_RADIANCE)}
Reference == IF EngineEvents = {} THEN 0 ELSE LastOf(EngineEvents)
ActiveFeaturedOf(ref) ==
    IF ref = 0 THEN NameAt(Len(Pulls5)) ELSE NameAt(ref)
ActiveFeatured == ActiveFeaturedOf(Reference)

\* the pulls strictly after the reference event (all of them under the
\* fallback), and the longest prefix of them without the active character
AfterReferenceOf(ref) == SubSeq(Pulls5, ref + 1, Len(Pulls5))
AfterReference == AfterReferenceOf(Reference)
NonFeaturedPrefixOf(after, active, n) ==
    /\ n <= Len(after)
    /\ \A j \in 1..n : df[after[j]].name # active
NonFeaturedPrefix(n) ==
    LET ref == Reference IN
    NonFeaturedPrefixOf(AfterReferenceOf(ref), ActiveFeaturedOf(ref), n)
LongestNonFeaturedPrefix ==
    LET ref    == Reference
        after  == AfterReferenceOf(ref)
        active == ActiveFeaturedOf(ref)
    IN  CHOOSE n \in 0..Len(after) :
            /\ NonFeaturedPrefixOf(after, active, n)
            /\ ~NonFeaturedPrefixOf(after, active, n + 1)

\* the streak loop has ended
Counted == pc \in {"decide", "pity", "output"} \/ ForecastPrinted
\* the probability has been assigned
Decided == pc \in {"pity", "output"} \/ ForecastPrinted

\* C4: guaranteed = true and probability = 1.0 exactly when the
\* non-featured streak after the reference event is at least 3; for a
\* streak of 0, 1 or 2 the probability is the base constant 0.00018 and
\* guaranteed = false.  (Probabilities are in units of 1/100000.)
C4_ProbabilityPolicy ==
    Decided =>
        LET streak == LongestNonFeaturedPrefix IN
        /\ guaranteed <=> (streak >= 3)
        /\ (radiance_chance = 100000) <=> (streak >= 3)
        /\ streak \in {0, 1, 2} => radiance_chance = 18 /\ ~guaranteed
        /\ ForecastPrinted =>
              /\ stdout[Len(stdout)].guaranteed = guaranteed
              /\ stdout[Len(stdout)].radiance_chance = radiance_chance

\* Scenario D: exactly 3 non-featured pulls after a detected event
C4_Witness ==
    /\ ForecastPrinted
    /\ Reference = 1
    /\ Len(Pulls5) = 4
    /\ LongestNonFeaturedPrefix = 3
    /\ guaranteed
    /\ radiance_chance = CERTAIN

\* C5: the streak is the length of the longest prefix of the five-star
\* pulls strictly after the reference event (of all of them under the
\* fallback) whose characters all differ from the active featured
\* character: counting stops at the first match, and while the loop runs
\* every pull visited so far was counted.
C5_StreakIsLongestPrefix ==
    /\ Counted => consec_non_up = LongestNonFeaturedPrefix
    /\ pc = "count" => consec_non_up = i /\ NonFeaturedPrefix(i)

\* a non-featured pull after the first match is not counted
C5_Witness ==
    /\ ForecastPrinted
    /\ Reference = 1
    /\ Len(AfterReference) = 3
    /\ df[AfterReference[1]].name # ActiveFeatured
    /\ df[AfterReference[2]].name = ActiveFeatured
    /\ df[AfterReference[3]].name # ActiveFeatured
    /\ consec_non_up = 1

\* the pity has been read
Projected == pc = "output" \/ ForecastPrinted

\* C6: pulls_remaining = max(0, 90 - current_pity) and resource_cost =
\* pulls_remaining x 160 for every pity value, those above the ceiling
\* included; neither is negative, and both are 0 at the ceiling.
C6_ResourceProjection ==
    Projected =>
        /\ current_pity <= 90 => pulls_to_next5 = 90 - current_pity
        /\ current_pity >= 90 => pulls_to_next5 = 0
        /\ gems_needed = pulls_to_next5 * 160
        /\ pulls_to_next5 >= 0 /\ gems_needed >= 0
        /\ current_pity = 90 => pulls_to_next5 = 0 /\ gems_needed = 0

\* a pity above the ceiling
C6_Witness ==
    /\ ForecastPrinted
    /\ current_pity > PITY_CEILING
    /\ pulls_to_next5 = 0
    /\ gems_needed = 0

\* C7: when the engine finds no prior Radiance event among the five-star
\* pulls (and there is a pull), the active featured character of the
\* forecast is the character of the most recent five-star pull and the
\* output carries the warning line; the warning is printed for exactly the
\* fallback forecasts, and a forecast from a detected event names it.
C7_FallbackIsFlagged ==
    ForecastPrinted =>
        LET Reference0 == Reference IN
        /\ Reference0 = 0 =>
              /\ stdout[Len(stdout)].up_name = NameAt(Len(Pulls5))
              /\ Printed(NO_PREVIOUS)
              /\ ~Printed(DETECTED("", 0))
        /\ Reference0 # 0 =>
              /\ ~Printed(NO_PREVIOUS)
              /\ Printed(DETECTED("", 0))
        /\ Printed(NO_PREVIOUS) <=> (last_rad_pos = -1)

\* a fallback forecast whose most recent pull is not the first one
C7_Witness ==
    /\ ForecastPrinted
    /\ Reference = 0
    /\ Len(Pulls5) >= 2
    /\ NameAt(1) # NameAt(Len(Pulls5))
    /\ up_name = NameAt(Len(Pulls5))
    /\ stdout[2] = NO_PREVIOUS

====
